---- MODULE Spec2Model ----
(***************************************************************************)
(* The DAG store of consensus/src/dag/dag_store.rs: the round-indexed      *)
(* in-memory structure Dag, its constructor Dag::new (rehydration from     *)
(* the DAGStorage collaborator), the admission protocol Dag::add_node and  *)
(* the queries lowest_round, highest_round, exists, all_exists, get_node   *)
(* and get_strong_links_for_round.                                         *)
(*                                                                         *)
(* Round is u64 in the source; the rounds of the model stay far below      *)
(* 2^64, so highest_round() + 1 never wraps here.                          *)
(***************************************************************************)
EXTENDS Integers, FiniteSets, Sequences, TLC

\* ------------------------------------------------------------------ bounds

\* Rounds of the nodes offered to add_node are 0..MaxRound.
MaxRound == 2
\* Number of operations (add_node calls, Dag::new calls after the first) in
\* one behaviour.
MaxOps == 3

\* ------------------------------------------------------------ data model

Rounds == 0..MaxRound
Epochs == {1, 2}

\* epoch_state.verifier.address_to_validator_index(): the validators of the
\* epoch and their dense indices.
author_to_index == [a \in {"a1", "a2"} |-> IF a = "a1" THEN 0 ELSE 1]
Validators == DOMAIN author_to_index
num_validators == Cardinality(Validators)
Indices == 0..(num_validators - 1)
\* Authors that nodes may name: the validators and one stranger.
Authors == Validators \cup {"x"}

\* NodeMetadata: (epoch, round, author).
Metadata(e, r, a) == [epoch |-> e, round |-> r, author |-> a]

\* The parent lists offered: none, one parent (by validator a1 at a round
\* below MaxRound), or two parents (by a1 and a2 at round 0). A parent
\* certificate carries the metadata of the parent; its epoch is the epoch of
\* the node.
ParentRefs == {{}} \cup {{<<r, "a1">>} : r \in 0..(MaxRound - 1)}
                   \cup {{<<0, "a1">>, <<0, "a2">>}}

\* CertifiedNode: metadata and the metadata of its parent certificates. The
\* nodes offered are those of the validators with each parent list, and those
\* of the stranger without parents.
Nodes == [epoch : Epochs, round : Rounds, author : Validators, parents : ParentRefs]
         \cup [epoch : Epochs, round : Rounds, author : Authors \ Validators, parents : {{}}]

\* CertifiedNode::metadata
metadata(n) == Metadata(n.epoch, n.round, n.author)
\* CertifiedNode::parents: the metadata held by each parent certificate
parents(n) == {Metadata(n.epoch, p[1], p[2]) : p \in n.parents}
\* CertifiedNode::certificate: the NodeCertificate of a node
certificate(n) == [metadata |-> metadata(n)]

AllMetadata == {Metadata(e, r, a) : e \in Epochs, r \in Rounds, a \in Authors}

\* Option<NodeStatus> as a set with at most one element.
None == {}
Unordered(n) == {[status |-> "Unordered", node |-> n]}
\* NodeStatus::as_node
as_node(s) == s.node
\* vec![None; num_validators]
EmptyRow == [i \in Indices |-> None]

VARIABLES
    epoch,           \* the epoch the Dag was constructed for
    nodes_by_round,  \* Dag.nodes_by_round: round -> row of slots
    storage,         \* the DAGStorage collaborator: the certified nodes saved
    pc,              \* "idle", or "saved" inside add_node after the save
    node,            \* the argument of the add_node call in progress or last made
    outcome,         \* what the last operation returned
    before,          \* the Dag and the storage when the last operation began
    expired,         \* the identifiers the last Dag::new asked storage to delete
    ops              \* operations begun

vars == <<epoch, nodes_by_round, storage, pc, node, outcome, before, expired, ops>>

\* The Dag and the storage as an operation finds them.
Snapshot == [nodes_by_round |-> nodes_by_round, storage |-> storage, pc |-> pc, epoch |-> epoch]

\* ---------------------------------------------------------------- queries

\* BTreeMap keys of a map m, smallest and largest
MinKey(m) == CHOOSE r \in DOMAIN m : \A q \in DOMAIN m : r <= q
MaxKey(m) == CHOOSE r \in DOMAIN m : \A q \in DOMAIN m : r >= q

lowest_round_of(m) == IF DOMAIN m = {} THEN 0 ELSE MinKey(m)
highest_round_of(m) == IF DOMAIN m = {} THEN 0 ELSE MaxKey(m)

\* The lookup that reads the first slot of the row of the round, whatever the
\* index of the author.
get_node_ref_first_slot(m, md) ==
    IF md.author \notin DOMAIN author_to_index THEN None
    ELSE IF md.round \notin DOMAIN m THEN None
    ELSE m[md.round][0]

\* get_node_ref: the slot of a metadata as an Option
get_node_ref_of(m, md) ==
    IF md.author \notin DOMAIN author_to_index THEN None
    ELSE IF md.round \notin DOMAIN m THEN None
    ELSE m[md.round][author_to_index[md.author]]

exists_of(m, md) == get_node_ref_of(m, md) # None
get_node_of(m, md) == {as_node(s) : s \in get_node_ref_of(m, md)}
all_exists_of(m, mds) == \A md \in mds : exists_of(m, md)

lowest_round == lowest_round_of(nodes_by_round)
highest_round == highest_round_of(nodes_by_round)
exists(md) == exists_of(nodes_by_round, md)
get_node(md) == get_node_of(nodes_by_round, md)

\* ------------------------------------------- get_strong_links_for_round

\* The ValidatorVerifier of the epoch: the voting power of each validator and
\* the quorum voting power, two thirds of the total plus one.
TotalPower(power) ==
    LET RECURSIVE Sum(_)
        Sum(as) == IF as = {} THEN 0
                   ELSE LET a == CHOOSE x \in as : TRUE IN power[a] + Sum(as \ {a})
    IN  Sum(DOMAIN power)
Verifier(power) ==
    [voting_power |-> power, quorum_voting_power |-> (TotalPower(power) * 2) \div 3 + 1]
verifier == Verifier([a \in Validators |-> IF a = "a1" THEN 3 ELSE 1])

\* ValidatorVerifier::check_voting_power over an iterator of authors: an
\* error for an author that is no validator, else the powers are summed one
\* author at a time and compared with the quorum voting power.
RECURSIVE sum_voting_power(_, _)
sum_voting_power(v, authors) ==
    IF authors = << >> THEN 0
    ELSE v.voting_power[Head(authors)] + sum_voting_power(v, Tail(authors))
check_voting_power(v, authors) ==
    /\ \A k \in 1..Len(authors) : authors[k] \in DOMAIN v.voting_power
    /\ sum_voting_power(v, authors) >= v.quorum_voting_power

\* row.iter().flatten(): the populated slots of a row in index order
RECURSIVE flatten_from(_, _)
flatten_from(row, i) ==
    IF i \notin DOMAIN row THEN << >>
    ELSE (IF row[i] = None THEN << >> ELSE <<CHOOSE s \in row[i] : TRUE>>)
         \o flatten_from(row, i + 1)
flatten(row) == flatten_from(row, 0)

\* The query with the quorum taken over the number of authors of the round:
\* more than two thirds of the validators.
get_strong_links_by_count(m, round, v) ==
    IF round \notin DOMAIN m THEN None
    ELSE LET all_nodes_in_round == flatten(m[round])
             n == Len(all_nodes_in_round)
         IN  IF n >= (Cardinality(DOMAIN v.voting_power) * 2) \div 3 + 1
             THEN {[k \in 1..n |-> certificate(as_node(all_nodes_in_round[k]))]}
             ELSE None

\* get_strong_links_for_round on the map m: None, or Some(list of certificates)
get_strong_links_of(m, round, v) ==
    IF round \notin DOMAIN m THEN None
    ELSE LET all_nodes_in_round == flatten(m[round])
             n == Len(all_nodes_in_round)
         IN  IF check_voting_power(v, [k \in 1..n |-> as_node(all_nodes_in_round[k]).author])
             THEN {[k \in 1..n |-> certificate(as_node(all_nodes_in_round[k]))]}
             ELSE None

get_strong_links_for_round(round, v) == get_strong_links_of(nodes_by_round, round, v)

\* ------------------------------------------------------------- Dag::new

\* The nodes of the epoch, and the identifiers pushed on `expired`.
Current(all_nodes, e) == {n \in all_nodes : n.epoch = e}
Expired(all_nodes, e) == {n \in all_nodes : n.epoch # e}
SlotNodes(ns, r, i) == {n \in ns : n.round = r /\ author_to_index[n.author] = i}

\* The map the insertion loop leaves when the nodes ws are the last ones it
\* inserted in their slots: a row for each of their rounds, each Unordered.
RowsOf(ws) ==
    [r \in {n.round : n \in ws} |->
        [i \in Indices |-> {[status |-> "Unordered", node |-> n] : n \in SlotNodes(ws, r, i)}]]

\* all_nodes is a HashMap: the loop visits it in any order, so of several
\* current-epoch nodes read for one slot any one is the last inserted.
Winners(cur) ==
    {ws \in SUBSET cur :
        \A n \in cur : Cardinality(SlotNodes(ws, n.round, author_to_index[n.author])) = 1}

\* A loop that inserts every node read, whatever its epoch.
Rehydrated_all_epochs(all_nodes, e) == {RowsOf(ws) : ws \in Winners(all_nodes)}

Rehydrated(all_nodes, e) == {RowsOf(ws) : ws \in Winners(Current(all_nodes, e))}

EmptyMap == RowsOf({})

Init ==
    /\ epoch = 1
    /\ nodes_by_round = EmptyMap
    /\ storage = {}
    /\ pc = "idle"
    /\ node = [epoch |-> 1, round |-> 0, author |-> "a1", parents |-> {}]
    /\ outcome = "new"
    /\ before = [nodes_by_round |-> EmptyMap, storage |-> {}, pc |-> "idle", epoch |-> 1]
    /\ expired = {}
    /\ ops = 0

\* Dag::new(epoch_state, storage) for epoch e, on a restart of the process
\* (also in the middle of an add_node) or at an epoch change. read_ok: whether
\* get_certified_nodes succeeds (unwrap_or_default: a failure reads as no
\* nodes); delete_ok: whether the one delete_certified_nodes call, made
\* with the identifiers on `expired`, succeeds. The expect on
\* the author aborts the construction when a current-epoch node names no
\* validator.
New(e, read_ok, delete_ok) ==
    LET all_nodes == IF read_ok THEN storage ELSE {} IN
    /\ ops < MaxOps
    /\ e >= epoch
    /\ \A n \in Current(all_nodes, e) : n.author \in DOMAIN author_to_index
    /\ before' = Snapshot
    /\ epoch' = e
    /\ nodes_by_round' \in Rehydrated(all_nodes, e)
    /\ expired' = Expired(all_nodes, e)
    /\ storage' = IF delete_ok THEN storage \ Expired(all_nodes, e) ELSE storage
    /\ pc' = "idle"
    /\ outcome' = IF read_ok THEN "new" ELSE "new: read failed"
    /\ ops' = ops + 1
    /\ UNCHANGED node

\* ---------------------------------------------------------- Dag::add_node

\* The entry call as a plain insert: the row of the round is replaced by an
\* all-empty row whether or not the round is indexed.
entry_insert(m, r) ==
    [q \in DOMAIN m \cup {r} |-> IF q = r THEN EmptyRow ELSE m[q]]

\* nodes_by_round.entry(round).or_insert_with(|| vec![None; len])
entry_or_insert(m, r) ==
    IF r \in DOMAIN m THEN m
    ELSE [q \in DOMAIN m \cup {r} |-> IF q = r THEN EmptyRow ELSE m[q]]

\* A slot write that rebuilds the row of the round around the new node.
write_slot_fresh_row(m, n) ==
    [m EXCEPT ![n.round] = [EmptyRow EXCEPT ![author_to_index[n.author]] = Unordered(n)]]

\* round_ref[index] = Some(NodeStatus::Unordered(node))
write_slot(m, n) ==
    [m EXCEPT ![n.round][author_to_index[n.author]] = Unordered(n)]

\* The checks without the lower round bound.
add_node_error_no_lower_bound(m, n) ==
    IF n.author \notin DOMAIN author_to_index THEN "unknown author"
    ELSE IF ~(n.round <= highest_round_of(m) + 1) THEN "round too high"
    ELSE IF ~(\A p \in parents(n) : exists_of(m, p)) THEN "parent not exist"
    ELSE IF entry_or_insert(m, n.round)[n.round][author_to_index[n.author]] # None
         THEN "duplicate node"
    ELSE ""

\* The checks without the upper round bound.
add_node_error_no_upper_bound(m, n) ==
    IF n.author \notin DOMAIN author_to_index THEN "unknown author"
    ELSE IF ~(n.round >= lowest_round_of(m)) THEN "round too low"
    ELSE IF ~(\A p \in parents(n) : exists_of(m, p)) THEN "parent not exist"
    ELSE IF entry_or_insert(m, n.round)[n.round][author_to_index[n.author]] # None
         THEN "duplicate node"
    ELSE ""

\* The checks with the upper round bound at highest_round() instead of
\* highest_round() + 1.
add_node_error_off_by_one(m, n) ==
    IF n.author \notin DOMAIN author_to_index THEN "unknown author"
    ELSE IF ~(n.round >= lowest_round_of(m)) THEN "round too low"
    ELSE IF ~(n.round <= highest_round_of(m)) THEN "round too high"
    ELSE IF ~(\A p \in parents(n) : exists_of(m, p)) THEN "parent not exist"
    ELSE IF entry_or_insert(m, n.round)[n.round][author_to_index[n.author]] # None
         THEN "duplicate node"
    ELSE ""

\* The checks with a parent loop that is satisfied by one stored parent.
add_node_error_any_parent(m, n) ==
    IF n.author \notin DOMAIN author_to_index THEN "unknown author"
    ELSE IF ~(n.round >= lowest_round_of(m)) THEN "round too low"
    ELSE IF ~(n.round <= highest_round_of(m) + 1) THEN "round too high"
    ELSE IF ~(parents(n) = {} \/ \E p \in parents(n) : exists_of(m, p))
         THEN "parent not exist"
    ELSE IF entry_or_insert(m, n.round)[n.round][author_to_index[n.author]] # None
         THEN "duplicate node"
    ELSE ""

\* The checks without the occupancy check of the slot.
add_node_error_no_duplicate_check(m, n) ==
    IF n.author \notin DOMAIN author_to_index THEN "unknown author"
    ELSE IF ~(n.round >= lowest_round_of(m)) THEN "round too low"
    ELSE IF ~(n.round <= highest_round_of(m) + 1) THEN "round too high"
    ELSE IF ~(\A p \in parents(n) : exists_of(m, p)) THEN "parent not exist"
    ELSE ""

\* The checks with the occupancy check ahead of the parent loop.
add_node_error_duplicate_first(m, n) ==
    IF n.author \notin DOMAIN author_to_index THEN "unknown author"
    ELSE IF ~(n.round >= lowest_round_of(m)) THEN "round too low"
    ELSE IF ~(n.round <= highest_round_of(m) + 1) THEN "round too high"
    ELSE IF entry_or_insert(m, n.round)[n.round][author_to_index[n.author]] # None
         THEN "duplicate node"
    ELSE IF ~(\A p \in parents(n) : exists_of(m, p)) THEN "parent not exist"
    ELSE ""

\* The checks of add_node in their order; "" when all pass.
add_node_error(m, n) ==
    IF n.author \notin DOMAIN author_to_index THEN "unknown author"
    ELSE IF ~(n.round >= lowest_round_of(m)) THEN "round too low"
    ELSE IF ~(n.round <= highest_round_of(m) + 1) THEN "round too high"
    ELSE IF ~(\A p \in parents(n) : exists_of(m, p)) THEN "parent not exist"
    ELSE IF entry_or_insert(m, n.round)[n.round][author_to_index[n.author]] # None
         THEN "duplicate node"
    ELSE ""

\* The slot written as soon as the checks pass, ahead of the save.
after_checks_slot_first(m, n, err) ==
    IF err \in {"unknown author", "round too low", "round too high", "parent not exist"}
    THEN m
    ELSE IF err = "" THEN write_slot(entry_or_insert(m, n.round), n)
    ELSE entry_or_insert(m, n.round)

\* The map add_node leaves when it returns the error err, or holds when it
\* reaches the save: the entry call has run once the first four checks passed.
after_checks(m, n, err) ==
    IF err \in {"unknown author", "round too low", "round too high", "parent not exist"}
    THEN m
    ELSE entry_or_insert(m, n.round)

\* add_node(n) up to and including save_certified_node. save_ok: whether the
\* save succeeds. A call that fails returns here; a call whose save succeeded
\* goes on to the slot write.
AddNode(n, save_ok) ==
    LET err == add_node_error(nodes_by_round, n) IN
    /\ pc = "idle"
    /\ ops < MaxOps
    /\ ops' = ops + 1
    /\ node' = n
    /\ before' = Snapshot
    /\ nodes_by_round' = after_checks(nodes_by_round, n, err)
    /\ IF err # "" THEN
            /\ outcome' = err
            /\ UNCHANGED <<storage, pc>>
       ELSE IF ~save_ok THEN
            /\ outcome' = "storage error"
            /\ UNCHANGED <<storage, pc>>
       ELSE
            /\ storage' = storage \cup {n}
            /\ pc' = "saved"
            /\ outcome' = "pending"
    /\ UNCHANGED <<epoch, expired>>

\* The slot write and the return of Ok, after a successful save.
AddNodeWrite ==
    /\ pc = "saved"
    /\ nodes_by_round' = write_slot(nodes_by_round, node)
    /\ pc' = "idle"
    /\ outcome' = "Ok"
    /\ UNCHANGED <<epoch, storage, node, before, expired, ops>>

Next ==
    \/ \E n \in Nodes, save_ok \in BOOLEAN : AddNode(n, save_ok)
    \/ AddNodeWrite
    \/ \E e \in Epochs, read_ok \in BOOLEAN, delete_ok \in BOOLEAN : New(e, read_ok, delete_ok)

Spec == Init /\ [][Next]_vars

\* The Dag built over empty storage and used through add_node alone: no
\* restart and no epoch change.
NextAdd ==
    \/ \E n \in Nodes, save_ok \in BOOLEAN : AddNode(n, save_ok)
    \/ AddNodeWrite

SpecAdd == Init /\ [][NextAdd]_vars

\* ------------------------------------------------- status transition

\* The status mutator the ordering rule calls (the source declares the tags
\* Ordered and Committed and holds no code that sets them): the tag of the
\* node of a metadata is overwritten in place by a tag strictly forward of it
\* in the order Unordered, Ordered, Committed; a missing node is NotFound, a
\* backward or no-op target is InvalidTransition. It runs serialized with the
\* admissions.
Rank(tag) == CASE tag = "Unordered" -> 0 [] tag = "Ordered" -> 1 [] tag = "Committed" -> 2
Tags == {"Unordered", "Ordered", "Committed"}

SetStatus(md, target) ==
    LET slot == get_node_ref_of(nodes_by_round, md) IN
    /\ pc = "idle"
    /\ ops < MaxOps
    /\ ops' = ops + 1
    /\ before' = Snapshot
    /\ IF slot = None THEN
            /\ outcome' = "NotFound"
            /\ UNCHANGED nodes_by_round
       ELSE IF \E s \in slot : Rank(target) <= Rank(s.status) THEN
            /\ outcome' = "InvalidTransition"
            /\ UNCHANGED nodes_by_round
       ELSE
            /\ outcome' = "status set"
            /\ nodes_by_round' =
                  [nodes_by_round EXCEPT ![md.round][author_to_index[md.author]] =
                      {[status |-> target, node |-> as_node(s)] : s \in slot}]
    /\ UNCHANGED <<epoch, storage, pc, node, expired>>

\* The store with its status mutator: construction, restarts, admissions and
\* status transitions.
NextStatus ==
    \/ Next
    \/ \E r \in Rounds, a \in Validators, target \in Tags : SetStatus(Metadata(epoch, r, a), target)

SpecStatus == Init /\ [][NextStatus]_vars

\* ------------------------------------------------------ claim vocabulary

NewOutcomes == {"new", "new: read failed"}
Errors == {"unknown author", "round too low", "round too high", "parent not exist",
           "duplicate node", "storage error"}

\* The last operation was an add_node call and it has returned.
Returned == pc = "idle" /\ outcome \notin NewOutcomes

\* The in-memory store as add_node found it.
Before == before.nodes_by_round

\* The in-memory store and the storage are as add_node found them.
MemoryUnchanged ==
    /\ DOMAIN nodes_by_round = DOMAIN Before
    /\ lowest_round = lowest_round_of(Before)
    /\ highest_round = highest_round_of(Before)
    /\ \A r \in DOMAIN nodes_by_round : \A i \in Indices : nodes_by_round[r][i] = Before[r][i]
StorageUnchanged == storage = before.storage

\* What get_node and exists answer on every metadata, and the round bounds.
View(m) ==
    [lowest |-> lowest_round_of(m),
     highest |-> highest_round_of(m),
     exists |-> [md \in AllMetadata |-> exists_of(m, md)],
     get_node |-> [md \in AllMetadata |-> get_node_of(m, md)]]

\* C1: every node visible through exists/get_node is recorded in storage, in
\* every state (also between the save and the slot write), and the node of an
\* add_node call whose save failed is not visible once the call has returned.
PersistBeforeVisible ==
    /\ \A md \in AllMetadata : exists(md) => \A n \in get_node(md) : n \in storage
    /\ outcome = "storage error" =>
          ~exists(metadata(node)) /\ get_node(metadata(node)) = {}

\* An add_node call failed in the save while other nodes are visible.
PersistBeforeVisibleWitness ==
    /\ outcome = "storage error"
    /\ \E md \in AllMetadata : exists(md)

\* C2: an add_node call whose checks pass and whose save fails returns the
\* error and leaves the same indexed rounds, bounds and slots as before.
SaveFailureLeavesMemory ==
    outcome = "storage error" => MemoryUnchanged

\* C3: add_node of a node whose round is below lowest_round() or above
\* highest_round() + 1 returns an error and changes neither memory nor storage.
RoundBoundsRejected ==
    (/\ Returned
     /\ \/ node.round < lowest_round_of(Before)
        \/ node.round > highest_round_of(Before) + 1)
    => (outcome \in Errors /\ MemoryUnchanged /\ StorageUnchanged)

\* A validator's node was refused for a round below the lowest round.
RoundBoundsRejectedWitness ==
    /\ Returned
    /\ node.author \in Validators
    /\ node.round < lowest_round_of(Before)
    /\ outcome = "round too low"

\* C4: add_node of a node with a declared parent that does not exist returns
\* an error and changes neither memory (no new row, no slot) nor storage.
MissingParentRejected ==
    (/\ Returned
     /\ \E p \in parents(node) : ~exists_of(Before, p))
    => (outcome \in Errors /\ MemoryUnchanged /\ StorageUnchanged)

\* A node was refused with one declared parent stored and the other missing,
\* at a round the store had not indexed.
MissingParentRejectedWitness ==
    /\ outcome = "parent not exist"
    /\ \E p \in parents(node) : exists_of(Before, p)
    /\ node.round \notin DOMAIN Before

\* C5: a node with a validator as author, a round within
\* [lowest_round(), highest_round() + 1], all declared parents stored and an
\* empty slot is admitted with Ok when the save succeeds; exists then answers
\* true for its metadata and get_node returns the node.
Admissible(m, n) ==
    /\ n.author \in DOMAIN author_to_index
    /\ lowest_round_of(m) <= n.round
    /\ n.round <= highest_round_of(m) + 1
    /\ \A p \in parents(n) : exists_of(m, p)
    /\ ~exists_of(m, metadata(n))
AdmissionSucceeds ==
    (Returned /\ Admissible(Before, node) /\ outcome # "storage error")
    => (/\ outcome = "Ok"
        /\ exists(metadata(node))
        /\ get_node(metadata(node)) = {node})

\* A node with two stored parents was admitted at a new highest round.
AdmissionSucceedsWitness ==
    /\ outcome = "Ok"
    /\ pc = "idle"
    /\ Cardinality(parents(node)) = 2
    /\ node.round = highest_round_of(Before) + 1
    /\ get_node(metadata(node)) = {node}

\* C6 as claimed: a slot holds at most one node, and add_node for a populated
\* slot fails as a duplicate, writes nothing to storage and leaves get_node
\* answering the node first admitted.
AtMostOnePerSlot ==
    \A r \in DOMAIN nodes_by_round : \A i \in Indices : Cardinality(nodes_by_round[r][i]) <= 1
DuplicateRejectedAsDuplicate ==
    /\ AtMostOnePerSlot
    /\ (Returned /\ exists_of(Before, metadata(node)))
       => (/\ outcome = "duplicate node"
           /\ StorageUnchanged
           /\ get_node(metadata(node)) = get_node_of(Before, metadata(node)))

\* C6 as amended: a slot holds at most one node, and add_node for a populated
\* slot fails, as a duplicate when every declared parent is stored and as a
\* missing parent otherwise, writes nothing to storage and leaves get_node
\* answering the node first admitted.
DuplicateRejected ==
    /\ AtMostOnePerSlot
    /\ (Returned /\ exists_of(Before, metadata(node)))
       => (/\ outcome = (IF \A p \in parents(node) : exists_of(Before, p)
                         THEN "duplicate node" ELSE "parent not exist")
           /\ StorageUnchanged
           /\ MemoryUnchanged
           /\ get_node(metadata(node)) = get_node_of(Before, metadata(node)))

\* A second, different node was offered for a populated slot and refused as a
\* duplicate.
DuplicateRejectedWitness ==
    /\ Returned
    /\ outcome = "duplicate node"
    /\ exists_of(Before, metadata(node))
    /\ node \notin get_node(metadata(node))
    /\ node \notin storage

\* The authors with a populated slot at round r, their joint voting power, and
\* the nodes of the populated slots of round r.
PresentAuthors(m, r) == {a \in Validators : exists_of(m, Metadata(epoch, r, a))}
RECURSIVE JointPower(_, _)
JointPower(v, as) ==
    IF as = {} THEN 0
    ELSE LET a == CHOOSE x \in as : TRUE IN v.voting_power[a] + JointPower(v, as \ {a})
PassesQuorum(v, as) == JointPower(v, as) >= v.quorum_voting_power
PresentNodes(m, r) == UNION {get_node_of(m, Metadata(epoch, r, a)) : a \in Validators}
Elements(list) == {list[k] : k \in 1..Len(list)}

\* C7: get_strong_links_for_round(r, verifier) returns a list exactly when the
\* authors with a populated slot at round r pass the weighted quorum check; the
\* list holds the certificate of every populated node of round r and nothing
\* else; for a round that is not indexed the answer is None.
StrongLinksIffQuorum ==
    \A r \in 0..(MaxRound + 1) :
        LET res == get_strong_links_for_round(r, verifier) IN
        /\ res # None <=> PassesQuorum(verifier, PresentAuthors(nodes_by_round, r))
        /\ r \notin DOMAIN nodes_by_round => res = None
        /\ \A list \in res :
              /\ Elements(list) = {certificate(n) : n \in PresentNodes(nodes_by_round, r)}
              /\ Len(list) = Cardinality(PresentAuthors(nodes_by_round, r))

\* One round with a single author has strong links and another round with a
\* single author has none: the power of the author decides, not the count.
StrongLinksIffQuorumWitness ==
    \E r1, r2 \in Rounds :
        /\ Cardinality(PresentAuthors(nodes_by_round, r1)) = 1
        /\ Cardinality(PresentAuthors(nodes_by_round, r2)) = 1
        /\ get_strong_links_for_round(r1, verifier) # None
        /\ get_strong_links_for_round(r2, verifier) = None

\* C8: over every step of an add_node call, successful or failed, that
\* changes the store, a round that has strong links keeps them and its
\* certificates are kept (a step that leaves the store alone keeps them too).
Available(m, r) == get_strong_links_of(m, r, verifier) # None
Certificates(m, r) == UNION {Elements(list) : list \in get_strong_links_of(m, r, verifier)}
QuorumMonotone ==
    [][(outcome' \notin NewOutcomes /\ nodes_by_round' # nodes_by_round) =>
          \A r \in Rounds :
              Available(nodes_by_round, r) =>
                  /\ Available(nodes_by_round', r)
                  /\ Certificates(nodes_by_round, r) \subseteq Certificates(nodes_by_round', r)]_vars

\* A node was admitted at a round that had strong links before the call, and
\* the round has strong links with one more certificate after it.
QuorumMonotoneWitness ==
    /\ outcome = "Ok"
    /\ pc = "idle"
    /\ Available(Before, node.round)
    /\ Available(nodes_by_round, node.round)
    /\ Certificates(nodes_by_round, node.round)
          = Certificates(Before, node.round) \cup {certificate(node)}
    /\ certificate(node) \notin Certificates(Before, node.round)

\* The in-memory store a complete add_node call with a successful save leaves.
Admit(m, n) ==
    LET err == add_node_error(m, n) IN
    IF err = "" THEN write_slot(after_checks(m, n, err), n) ELSE after_checks(m, n, err)

\* The stores obtained from the store m by admitting the nodes ns one by one
\* in ascending round order, nodes of one round in any order.
RECURSIVE Replay(_, _)
Replay(m, ns) ==
    IF ns = {} THEN {m}
    ELSE LET first == {n \in ns : \A q \in ns : n.round <= q.round}
         IN  UNION {Replay(Admit(m, n), ns \ {n}) : n \in first}

\* C9: the store Dag::new builds from the persisted nodes answers
\* lowest_round(), highest_round() and exists of each persisted node as an
\* empty store does after the current-epoch nodes were admitted one by one
\* with add_node in ascending round order.
RehydrationIdempotent ==
    \A m \in Rehydrated(storage, epoch) :
        \E replayed \in Replay(EmptyMap, Current(storage, epoch)) :
            /\ lowest_round_of(m) = lowest_round_of(replayed)
            /\ highest_round_of(m) = highest_round_of(replayed)
            /\ \A n \in storage :
                   exists_of(m, metadata(n)) = exists_of(replayed, metadata(n))

\* The store a Dag::new for the same epoch is to reconstruct: the store
\* before the restart, with the slot written when the restart interrupted an
\* add_node call between its save and its slot write.
Reconstructed ==
    IF before.pc = "saved" THEN write_slot(Before, node) ELSE Before

\* C10: a Dag::new for the same epoch that reads the storage reconstructs
\* the store: the same lowest_round(), highest_round(), exists and get_node
\* answers as before the restart, and after a crash between the save and the
\* slot write those of the completed admission.
RestartConsistent ==
    (outcome = "new" /\ ops > 0 /\ epoch = before.epoch)
    => View(nodes_by_round) = View(Reconstructed)

\* The slots of the store hold, of the nodes ns, exactly those of epoch e: a
\* row for each of their rounds and for no other round, each slot with such a
\* node holding one of them as Unordered, every other slot empty.
HoldsExactly(m, ns, e) ==
    LET cur == {n \in ns : n.epoch = e} IN
    /\ DOMAIN m = {n.round : n \in cur}
    /\ \A r \in DOMAIN m : \A i \in Indices :
          LET here == {n \in cur : n.round = r /\ author_to_index[n.author] = i} IN
          IF here = {} THEN m[r][i] = None
          ELSE \E n \in here : m[r][i] = {[status |-> "Unordered", node |-> n]}
    /\ \A n \in cur : Cardinality({q \in cur : metadata(q) = metadata(n)}) = 1
                      => get_node_of(m, metadata(n)) = {n}

\* The deletion Dag::new asked for names exactly the nodes of ns of another
\* epoch than e, and storage lost those nodes or, on a failed deletion, none.
DeletesExactly(ns, e) ==
    /\ expired = {n \in ns : n.epoch # e}
    /\ storage \in {before.storage, before.storage \ expired}

\* C11 as claimed: Dag::new inserts exactly the stored nodes of the current
\* epoch, each as Unordered at its slot, none of the stale ones, and asks for
\* the deletion of exactly the stale ones, whether or not the deletion fails.
NewLoadsStored ==
    outcome \in NewOutcomes =>
        /\ HoldsExactly(nodes_by_round, before.storage, epoch)
        /\ DeletesExactly(before.storage, epoch)

\* The nodes the last Dag::new read: the stored ones, or none when
\* get_certified_nodes failed.
NodesRead == IF outcome = "new" THEN before.storage ELSE {}

\* C11 as amended: Dag::new inserts exactly the nodes of the current epoch
\* that get_certified_nodes returned (none when the read fails), each as
\* Unordered at its slot, none of the stale ones, and asks for the deletion of
\* exactly the stale ones it read; the store is the same whether or not the
\* deletion fails.
NewLoadsRead ==
    outcome \in NewOutcomes =>
        /\ HoldsExactly(nodes_by_round, NodesRead, epoch)
        /\ DeletesExactly(NodesRead, epoch)

\* A Dag::new read nodes of its epoch and stale ones, and the deletion of the
\* stale ones failed: they are still stored, and the nodes of the epoch are in
\* their slots.
NewLoadsReadWitness ==
    /\ outcome = "new"
    /\ expired # {}
    /\ expired \subseteq storage
    /\ \E n \in before.storage : n.epoch = epoch /\ get_node(metadata(n)) = {n}

\* The nodes held in the slots of the store.
StoredNodes == {n \in storage : n \in get_node(metadata(n))}

\* C12 as claimed: every stored node's declared parents are stored, and each
\* lies at a strictly lower round than the node.
ParentsStoredBelow ==
    \A n \in StoredNodes : \A p \in parents(n) : exists(p) /\ p.round < n.round

\* C12 as amended: every stored node's declared parents are stored (the round
\* of a parent is not compared with the round of the node).
ParentsStored ==
    \A r \in DOMAIN nodes_by_round : \A i \in Indices : \A s \in nodes_by_round[r][i] :
        \A p \in parents(as_node(s)) : exists(p)

\* A stored node declares a stored parent of its own round.
ParentsStoredWitness ==
    \E n \in StoredNodes : \E p \in parents(n) : exists(p) /\ p.round = n.round

\* The rounds of the map m that hold at least one node.
PopulatedRounds(m) == {r \in DOMAIN m : \E i \in Indices : m[r][i] # None}

\* C13: the rounds that hold a node form a gap-free interval, and a
\* validator's round-2 node offered while round 1 holds no node is refused as
\* round too high, also after add_node calls whose save failed.
NoRoundGaps ==
    /\ \A r1 \in PopulatedRounds(nodes_by_round) : \A r2 \in PopulatedRounds(nodes_by_round) :
          \A r \in r1..r2 : r \in PopulatedRounds(nodes_by_round)
    /\ (/\ outcome \notin NewOutcomes
        /\ node.author \in Validators
        /\ node.round = 2
        /\ 1 \notin PopulatedRounds(Before))
       => outcome = "round too high"

\* C14: over each operation of a store, a populated slot stays populated
\* with the same node and a tag that is the same or further forward in the
\* order Unordered, Ordered, Committed; a slot populated by add_node holds
\* the tag Unordered, and so does every slot after Dag::new.
StatusMonotone ==
    /\ outcome \in NewOutcomes =>
          \A r \in DOMAIN nodes_by_round : \A i \in Indices : \A t \in nodes_by_round[r][i] :
              t.status = "Unordered"
    /\ outcome \notin NewOutcomes =>
          /\ \A r \in DOMAIN Before : \A i \in Indices : \A s \in Before[r][i] :
                /\ r \in DOMAIN nodes_by_round
                /\ \E t \in nodes_by_round[r][i] :
                      as_node(t) = as_node(s) /\ Rank(t.status) >= Rank(s.status)
          /\ \A r \in DOMAIN nodes_by_round : \A i \in Indices : \A t \in nodes_by_round[r][i] :
                (r \notin DOMAIN Before \/ Before[r][i] = None) => t.status = "Unordered"

\* A node was admitted as Unordered into a store that holds a node with a tag
\* further forward, which kept its tag.
StatusMonotoneWitness ==
    /\ outcome = "Ok"
    /\ pc = "idle"
    /\ \E t \in get_node_ref_of(nodes_by_round, metadata(node)) : t.status = "Unordered"
    /\ \E r \in DOMAIN Before : \E i \in Indices : \E s \in Before[r][i] :
          s.status # "Unordered" /\ s \in nodes_by_round[r][i]

\* The conditions a node n violates against the store m, numbered in the
\* order unknown author, round too low, round too high, missing parent,
\* duplicate node, and the error of each.
Violated(m, n) ==
    {k \in 1..5 :
        \/ k = 1 /\ n.author \notin DOMAIN author_to_index
        \/ k = 2 /\ n.round < lowest_round_of(m)
        \/ k = 3 /\ n.round > highest_round_of(m) + 1
        \/ k = 4 /\ \E p \in parents(n) : ~exists_of(m, p)
        \/ k = 5 /\ exists_of(m, metadata(n))}
ErrorOf == <<"unknown author", "round too low", "round too high", "parent not exist",
             "duplicate node">>

\* C15: add_node reports the first violated condition in the order unknown
\* author, round too low, round too high, missing parent, duplicate node, and
\* reaches the storage write only when no condition is violated.
ChecksInOrder ==
    outcome \notin NewOutcomes =>
        LET bad == Violated(Before, node) IN
        IF bad = {} THEN outcome \in {"pending", "Ok", "storage error"}
        ELSE /\ outcome = ErrorOf[CHOOSE k \in bad : \A j \in bad : k <= j]
             /\ StorageUnchanged

\* A node for an occupied slot that also declares a missing parent was
\* refused for the missing parent.
ChecksInOrderWitness ==
    /\ outcome = "parent not exist"
    /\ Violated(Before, node) = {4, 5}

\* C16: whenever no add_node call is in progress, every indexed round holds a
\* node, lowest_round() and highest_round() of a store that holds nodes are
\* rounds that hold a node, and both are 0 for a store that holds none.
IndexedRoundsPopulated ==
    pc = "idle" =>
        /\ DOMAIN nodes_by_round = PopulatedRounds(nodes_by_round)
        /\ IF PopulatedRounds(nodes_by_round) = {}
           THEN lowest_round = 0 /\ highest_round = 0
           ELSE /\ lowest_round \in PopulatedRounds(nodes_by_round)
                /\ highest_round \in PopulatedRounds(nodes_by_round)

\* C17: every node get_node returns, and every certificate
\* get_strong_links_for_round returns, is of the epoch the Dag was
\* constructed for.
EpochScoped ==
    /\ \A md \in AllMetadata : \A n \in get_node(md) : n.epoch = epoch
    /\ \A r \in Rounds : \A c \in Certificates(nodes_by_round, r) : c.metadata.epoch = epoch

\* C18: a successful add_node changes exactly the slot (node.round,
\* index(node.author)), from empty to Unordered(node); a row is added for that
\* round only when the round was not indexed; every other slot of every round
\* is as the call found it, and storage is the storage the call found plus
\* that node.
SlotBefore(r, i) == IF r \in DOMAIN Before THEN Before[r][i] ELSE None
SuccessFrame ==
    (pc = "idle" /\ outcome = "Ok") =>
        /\ SlotBefore(node.round, author_to_index[node.author]) = None
        /\ DOMAIN nodes_by_round = DOMAIN Before \cup {node.round}
        /\ \A r \in DOMAIN nodes_by_round : \A i \in Indices :
              nodes_by_round[r][i] =
                  IF r = node.round /\ i = author_to_index[node.author]
                  THEN Unordered(node) ELSE SlotBefore(r, i)
        /\ before.storage \subseteq storage
        /\ storage = before.storage \cup {node}
SuccessFrameWitness ==
    /\ pc = "idle" /\ outcome = "Ok"
    /\ node.round \in DOMAIN Before
    /\ \E i \in Indices : i # author_to_index[node.author] /\ Before[node.round][i] # None
    /\ \E r \in DOMAIN Before : r # node.round

\* C19 as stated: no add_node call, successful or failed, changes the value
\* lowest_round() returns, whatever store it starts from, the empty one
\* included.
FloorNeverMoved ==
    outcome \notin NewOutcomes => lowest_round = lowest_round_of(Before)

\* C19: an add_node call on a store that indexes a round does not change the
\* value lowest_round() returns; on a store that indexes no round the value
\* is 0 before the call and, after it, 0 or the round of the call's node.
FloorKept ==
    outcome \notin NewOutcomes =>
        IF DOMAIN Before # {}
        THEN lowest_round = lowest_round_of(Before)
        ELSE /\ lowest_round_of(Before) = 0
             /\ lowest_round \in {0, node.round}
FloorKeptWitness ==
    /\ pc = "idle" /\ outcome = "Ok"
    /\ DOMAIN Before # {}
    /\ lowest_round_of(Before) = 1
    /\ node.round \notin DOMAIN Before

\* C20: exists(metadata) is true exactly when the slot at (metadata.round,
\* index(metadata.author)) is populated; get_node(metadata) returns a node,
\* the node of that slot, exactly when exists(metadata) is true;
\* all_exists(certificates) is true exactly when exists holds for every
\* certificate, and true for the empty list; for an author that is not in
\* author_to_index or a round that is not indexed the answers are false and
\* absent.
Populated(md) ==
    /\ md.author \in DOMAIN author_to_index
    /\ md.round \in DOMAIN nodes_by_round
    /\ nodes_by_round[md.round][author_to_index[md.author]] # None
CertificateLists == {{Metadata(e, p[1], p[2]) : p \in ps} : e \in Epochs, ps \in ParentRefs}
QueriesAgree ==
    /\ \A md \in AllMetadata :
          /\ exists(md) <=> Populated(md)
          /\ (get_node(md) # {}) <=> exists(md)
          /\ Populated(md) =>
                get_node(md) =
                    {s.node : s \in nodes_by_round[md.round][author_to_index[md.author]]}
          /\ (md.author \notin DOMAIN author_to_index \/ md.round \notin DOMAIN nodes_by_round)
                => ~exists(md) /\ get_node(md) = {}
    /\ \A mds \in CertificateLists :
          all_exists_of(nodes_by_round, mds) <=> \A md \in mds : exists(md)
    /\ all_exists_of(nodes_by_round, {})
QueriesAgreeWitness ==
    /\ pc = "idle"
    /\ exists(Metadata(epoch, 0, "a1"))
    /\ ~exists(Metadata(epoch, 0, "a2"))
    /\ ~exists(Metadata(epoch, 0, "x"))
    /\ 1 \notin DOMAIN nodes_by_round
    /\ all_exists_of(nodes_by_round, {Metadata(epoch, 0, "a1")})
    /\ ~all_exists_of(nodes_by_round, {Metadata(epoch, 0, "a1"), Metadata(epoch, 0, "a2")})

====
